---- MODULE Spec2Model ----
(***************************************************************************)
(* LexiDiff: the token-level LCS diff engine (computeDiff and               *)
(* computeAlignedDiff of utils/diff) as a state machine.  A text is a       *)
(* sequence of characters, a token is a sequence of characters, and one     *)
(* call of an engine function runs as: enter (tokenize, build the LCS       *)
(* table), one step per iteration of the backtrack loop, return (merge).    *)
(***************************************************************************)
EXTENDS Integers, Sequences, FiniteSets, TLC

\* ------------------------------------------------------------- bounds
\* Longest input text, in characters.
MaxLen == 3
\* Longest input text of the repeated-call specification, in characters.
MaxLenRepeat == 2
\* Calls made one after the other in the repeated-call specification.
MaxCalls == 3
\* Clicks on Compare in the application specification.
MaxCompares == 2

\* The characters of the model: two non-whitespace characters and a space.
NonWs == {"a", "b"}
Ws == {" "}
Chars == NonWs \cup Ws

TextsUpTo(k) == UNION {[1..l -> Chars] : l \in 0..k}
\* The two texts of the concrete scenario, "A B" and "A C".
ScenarioA == <<"A", " ", "B">>
ScenarioB == <<"A", " ", "C">>
Texts == TextsUpTo(MaxLen) \cup {ScenarioA, ScenarioB}

Fns == {"computeDiff", "computeAlignedDiff"}

VARIABLES
  fn,      \* the engine function being called
  text1,   \* its first argument
  text2,   \* its second argument
  pc,      \* "call" (entered), "loop" (backtracking), "done" (returned),
           \* "error" (a TypeError was thrown), "diverge" (the loop spins)
  words1,  \* tokens of text1
  words2,  \* tokens of text2
  dp,      \* the LCS table, dp[i][j] for 0 <= i <= n, 0 <= j <= m
  i,       \* backtrack index into words1
  j,       \* backtrack index into words2
  result,  \* computeDiff: the per-token records, in document order
  rows,    \* computeAlignedDiff: the per-token rows, in document order
  merged,  \* the value returned (records or rows)
  iters,   \* iterations of the backtrack loop made by this call
  calls,   \* calls that have returned
  first,   \* the first call that returned: its function, arguments and value
  other,   \* a call after the first differed from it in function or arguments
  \* The App component (the engine's caller).
  variant,            \* which App: "gated" (checks isApiKeyMissing) or "plain"
  doc1,               \* useState doc1
  doc2,               \* useState doc2
  alignedRows,        \* useState alignedRows
  smartExplanations,  \* useState smartExplanations: row index -> insight
  error,              \* useState error ("none" is null)
  isApiKeyMissing,    \* useState isApiKeyMissing, as set by the mount effect
  pending,            \* getSmartExplanations calls awaited by handleCompare
  clicks,             \* clicks on Compare so far
  shown,              \* the click that stored the alignedRows on display
  \* One call of getSmartExplanations (services/geminiService).
  svcRows,      \* its argument
  svcPc,        \* "idle", "called", "requesting", "resolved", "rejected"
  submitted,    \* relevantChanges, the items written into the prompt
  returned,     \* the value the promise resolved to
  outcome,      \* how the call went
  serviceCalls  \* calls of ai.models.generateContent

engineVars == <<fn, text1, text2, pc, words1, words2, dp, i, j, result, rows,
                merged, iters, calls, first, other>>
appVars == <<variant, doc1, doc2, alignedRows, smartExplanations, error,
             isApiKeyMissing, pending, clicks, shown>>
serviceVars == <<svcRows, svcPc, submitted, returned, outcome, serviceCalls>>
vars == <<engineVars, appVars, serviceVars>>

\* ------------------------------------------------------------- values
\* The value of an absent side of a row (null).  Its type is none of the three
\* kinds, which is what `row.left?.type === 'unchanged'` sees on null.
Null == [type |-> "null", value |-> <<>>]
\* What reading an array at index -1 gives.
Undefined == <<"undefined">>
NoCall == [fn |-> "none", text1 |-> <<>>, text2 |-> <<>>, value |-> <<>>]

\* Mutant: Math.min for Math.max.
Min(x, y) == IF x <= y THEN x ELSE y
Max(x, y) == IF x >= y THEN x ELSE y

IsWs(c) == c \in Ws

\* ---------------------------------------------------------- tokenizer
\* text.split(/(\s+)/): the pieces between whitespace runs and the runs
\* themselves (the capture group), so a text that starts or ends with
\* whitespace, and the empty text, yield an empty first or last piece.
RECURSIVE Split(_)
Split(s) ==
  IF \A k \in 1..Len(s) : ~IsWs(s[k])
  THEN <<s>>
  ELSE LET p == CHOOSE k \in 1..Len(s) :
                  IsWs(s[k]) /\ \A l \in 1..(k-1) : ~IsWs(s[l])
           q == CHOOSE k \in p..Len(s) :
                  /\ \A l \in p..k : IsWs(s[l])
                  /\ (k = Len(s) \/ ~IsWs(s[k+1]))
       IN  <<SubSeq(s, 1, p-1), SubSeq(s, p, q)>>
             \o Split(SubSeq(s, q+1, Len(s)))

\* Mutant: w.length > 1 also drops the one-character tokens.
LongerThanOne(w) == Len(w) > 1

\* .filter(w => w.length > 0)
NonEmpty(w) == Len(w) > 0
FilterEmpty(words) == SelectSeq(words, NonEmpty)

\* Mutant: split(/\s+/), without the capture group, loses the whitespace runs.
IsWsToken(w) == Len(w) > 0 /\ \A k \in 1..Len(w) : IsWs(w[k])
NotWsToken(w) == ~IsWsToken(w)
DiffTokensNoCapture(text) == SelectSeq(Split(text), NotWsToken)

DiffTokens(text) == Split(text)

\* Mutant: filter(w => w.trim().length > 0) drops the whitespace tokens too.
AlignedTokensTrimmed(text) == SelectSeq(FilterEmpty(Split(text)), NotWsToken)
AlignedTokens(text) == FilterEmpty(Split(text))

\* ---------------------------------------------------------- LCS table
\* Array.from({length: n + 1}, () => Array(m + 1).fill(0))
ZeroTable(n, m) == [r \in 0..n |-> [c \in 0..m |-> 0]]

\* Mutant: on a match the cell above is taken instead of the diagonal one.
FillCellSlip(t, a, b, r, c) ==
  [t EXCEPT ![r][c] = IF a[r] = b[c]
                      THEN t[r-1][c] + 1
                      ELSE Max(t[r-1][c], t[r][c-1])]

\* The body of the inner loop.
FillCell(t, a, b, r, c) ==
  [t EXCEPT ![r][c] = IF a[r] = b[c]
                      THEN t[r-1][c-1] + 1
                      ELSE Max(t[r-1][c], t[r][c-1])]

\* for (i = 1..n) for (j = 1..m), from cell (r, c) on.
RECURSIVE FillFrom(_, _, _, _, _)
FillFrom(t, a, b, r, c) ==
  IF r > Len(a) \/ Len(b) = 0 THEN t
  ELSE IF c > Len(b) THEN FillFrom(t, a, b, r + 1, 1)
  ELSE FillFrom(FillCell(t, a, b, r, c), a, b, r, c + 1)

LCSTable(a, b) == FillFrom(ZeroTable(Len(a), Len(b)), a, b, 1, 1)

\* ------------------------------------------------------- merge passes
Change(type, value) == [type |-> type, value |-> value]

\* Mutant: only changes are merged, unchanged tokens are left apart.
MergePartChangesOnly(acc, part) ==
  IF acc # <<>> /\ acc[Len(acc)].type = part.type /\ part.type # "unchanged"
  THEN [acc EXCEPT ![Len(acc)].value = @ \o part.value]
  ELSE Append(acc, part)

\* computeDiff: merge consecutive changes of the same type.
MergePart(acc, part) ==
  IF acc # <<>> /\ acc[Len(acc)].type = part.type
  THEN [acc EXCEPT ![Len(acc)].value = @ \o part.value]
  ELSE Append(acc, part)

RECURSIVE MergeFrom(_, _)
MergeFrom(parts, acc) ==
  IF parts = <<>> THEN acc
  ELSE MergeFrom(Tail(parts), MergePart(acc, Head(parts)))

\* Mutant: the per-token list is returned as it is.
NoMerge(parts) == parts

MergeChanges(parts) == MergeFrom(parts, <<>>)

\* computeAlignedDiff: the three row patterns.
IsMatch(row) == row.left.type = "unchanged" /\ row.right.type = "unchanged"
IsAddition(row) == row.left = Null /\ row.right.type = "added"
IsRemoval(row) == row.left.type = "removed" /\ row.right = Null

\* Mutant: an addition and a removal count as the same pattern (one side).
SamePatternOneSided(row, last) ==
  \/ IsMatch(row) /\ IsMatch(last)
  \/ ~IsMatch(row) /\ ~IsMatch(last)

SamePattern(row, last) ==
  \/ IsMatch(row) /\ IsMatch(last)
  \/ IsAddition(row) /\ IsAddition(last)
  \/ IsRemoval(row) /\ IsRemoval(last)

\* Mutant: only the left side is concatenated.
JoinRowLeftOnly(last, row) ==
  [left  |-> IF row.left # Null
             THEN [last.left EXCEPT !.value = @ \o row.left.value]
             ELSE last.left,
   right |-> last.right]

\* if (row.left) last.left.value += row.left.value; likewise right.
JoinRow(last, row) ==
  [left  |-> IF row.left # Null
             THEN [last.left EXCEPT !.value = @ \o row.left.value]
             ELSE last.left,
   right |-> IF row.right # Null
             THEN [last.right EXCEPT !.value = @ \o row.right.value]
             ELSE last.right]

\* Mutant: the `continue` is missing, the joined row is pushed as well.
MergeRowNoContinue(acc, row) ==
  IF acc # <<>> /\ SamePattern(row, acc[Len(acc)])
  THEN Append([acc EXCEPT ![Len(acc)] = JoinRow(@, row)], row)
  ELSE Append(acc, row)

MergeRow(acc, row) ==
  IF acc # <<>> /\ SamePattern(row, acc[Len(acc)])
  THEN [acc EXCEPT ![Len(acc)] = JoinRow(@, row)]
  ELSE Append(acc, row)

RECURSIVE MergeRowsFrom(_, _)
MergeRowsFrom(rs, acc) ==
  IF rs = <<>> THEN acc
  ELSE MergeRowsFrom(Tail(rs), MergeRow(acc, Head(rs)))

MergeRows(rs) == MergeRowsFrom(rs, <<>>)

\* ------------------------------------------------------------ actions
\* Reading words[k-1] of the source: index k here; index 0 here is -1 there.
At(words, k) == IF k \in 1..Len(words) THEN words[k] ELSE Undefined

\* Mutant: list.push(x) leaves the list in backtrack order.
Push(list, x) == Append(list, x)

\* list.unshift(x)
Unshift(list, x) == <<x>> \o list

\* Mutant: result is kept across calls (declared outside the function).
StaleResult == result

\* const result: DiffChange[] = []  and  const rows: AlignedRow[] = []
FreshResult == <<>>
FreshRows == <<>>

\* The conditions of the branches of the two backtrack loops, at (i, j).
\* Mutant: the test that the two tokens are equal is left out.
DiffKeepHereLoose == i > 0 /\ j > 0
DiffKeepHere == i > 0 /\ j > 0 /\ words1[i] = words2[j]
\* Mutant: > for >= in the second branch; a tie then enters no branch.
DiffInsertHereStrict == j > 0 /\ (i = 0 \/ dp[i][j-1] > dp[i-1][j])
\* Mutant: the comparison of the two table cells is left out.
DiffInsertHereEager == j > 0
DiffInsertHere == j > 0 /\ (i = 0 \/ dp[i][j-1] >= dp[i-1][j])
DiffDeleteHere == i > 0 /\ (j = 0 \/ dp[i-1][j] > dp[i][j-1])
AlignedKeepHere == i > 0 /\ j > 0 /\ words1[i] = words2[j]
\* Mutant: > for >=; on a tie the unguarded else (deletion) is taken.
AlignedInsertHereStrict == j > 0 /\ (i = 0 \/ dp[i][j-1] > dp[i-1][j])
\* Mutant: the comparison of the two table cells is left out.
AlignedInsertHereEager == j > 0
AlignedInsertHere == j > 0 /\ (i = 0 \/ dp[i][j-1] >= dp[i-1][j])

\* The rows the three branches of computeAlignedDiff build.
Row(left, right) == [left |-> left, right |-> right]
MatchRow(l, r) == Row(Change("unchanged", l), Change("unchanged", r))
AdditionRow(r) == Row(Null, Change("added", r))
\* Mutant: the removed token is put on the right side.
RemovalRowSwapped(l) == Row(Null, Change("removed", l))
RemovalRow(l) == Row(Change("removed", l), Null)

\* The App's state as useState initialises it.
NoExplanations == <<>>
AppAtMount ==
  /\ doc1 = <<>>
  /\ doc2 = <<>>
  /\ alignedRows = <<>>
  /\ smartExplanations = NoExplanations
  /\ error = "none"
  /\ pending = {}
  /\ clicks = 0
  /\ shown = 0

\* No call of getSmartExplanations is being followed.
ServiceIdle ==
  /\ svcRows = <<>>
  /\ svcPc = "idle"
  /\ submitted = <<>>
  /\ returned = NoExplanations
  /\ outcome = "none"
  /\ serviceCalls = 0

Init ==
  /\ fn \in Fns
  /\ text1 \in Texts
  /\ text2 \in Texts
  /\ pc = "call"
  /\ words1 = <<>>
  /\ words2 = <<>>
  /\ dp = ZeroTable(0, 0)
  /\ i = 0
  /\ j = 0
  /\ result = <<>>
  /\ rows = <<>>
  /\ merged = <<>>
  /\ iters = 0
  /\ calls = 0
  /\ first = NoCall
  /\ other = FALSE
  /\ AppAtMount
  /\ variant = "plain"
  /\ isApiKeyMissing = FALSE
  /\ ServiceIdle

\* computeDiff up to the loop: tokens, table, empty result, i = n, j = m.
DiffEnter ==
  /\ UNCHANGED <<appVars, serviceVars>>
  /\ pc = "call"
  /\ fn = "computeDiff"
  /\ words1' = DiffTokens(text1)
  /\ words2' = DiffTokens(text2)
  /\ dp' = LCSTable(words1', words2')
  /\ i' = Len(words1')
  /\ j' = Len(words2')
  /\ result' = FreshResult
  /\ iters' = 0
  /\ pc' = "loop"
  /\ UNCHANGED <<fn, text1, text2, rows, merged, calls, first, other>>

\* One iteration of computeDiff's backtrack loop.  When none of the three
\* guarded branches fires the iteration changes nothing and the loop spins.
DiffBacktrack ==
  /\ UNCHANGED <<appVars, serviceVars>>
  /\ pc = "loop"
  /\ fn = "computeDiff"
  /\ i > 0 \/ j > 0
  /\ iters' = iters + 1
  /\ IF DiffKeepHere
     THEN /\ result' = Unshift(result, Change("unchanged", words1[i]))
          /\ i' = i - 1
          /\ j' = j - 1
          /\ pc' = pc
     ELSE IF DiffInsertHere
     THEN /\ result' = Unshift(result, Change("added", words2[j]))
          /\ i' = i
          /\ j' = j - 1
          /\ pc' = pc
     ELSE IF DiffDeleteHere
     THEN /\ result' = Unshift(result, Change("removed", words1[i]))
          /\ i' = i - 1
          /\ j' = j
          /\ pc' = pc
     ELSE /\ UNCHANGED <<result, i, j>>
          /\ pc' = "diverge"
  /\ UNCHANGED <<fn, text1, text2, words1, words2, dp, rows, merged,
                 calls, first, other>>

\* The loop has ended: merge and return.
DiffReturn ==
  /\ UNCHANGED <<appVars, serviceVars>>
  /\ pc = "loop"
  /\ fn = "computeDiff"
  /\ ~(i > 0 \/ j > 0)
  /\ merged' = MergeChanges(result)
  /\ pc' = "done"
  /\ calls' = calls + 1
  /\ first' = IF calls = 0
              THEN [fn |-> fn, text1 |-> text1, text2 |-> text2,
                    value |-> merged']
              ELSE first
  /\ UNCHANGED <<fn, text1, text2, words1, words2, dp, i, j, result, rows,
                 iters, other>>

\* computeAlignedDiff up to the loop: tokens without the empty ones, table,
\* empty rows, i = n, j = m.
AlignedEnter ==
  /\ UNCHANGED <<appVars, serviceVars>>
  /\ pc = "call"
  /\ fn = "computeAlignedDiff"
  /\ words1' = AlignedTokens(text1)
  /\ words2' = AlignedTokens(text2)
  /\ dp' = LCSTable(words1', words2')
  /\ i' = Len(words1')
  /\ j' = Len(words2')
  /\ rows' = FreshRows
  /\ iters' = 0
  /\ pc' = "loop"
  /\ UNCHANGED <<fn, text1, text2, result, merged, calls, first, other>>

\* One iteration of computeAlignedDiff's backtrack loop.  The last branch is
\* an unguarded else: with i = 0 it reads words1[-1] (undefined) and leaves
\* i = -1, and the next evaluation of dp[i][j - 1] throws on dp[-1].
AlignedBacktrack ==
  /\ UNCHANGED <<appVars, serviceVars>>
  /\ pc = "loop"
  /\ fn = "computeAlignedDiff"
  /\ i > 0 \/ j > 0
  /\ iters' = iters + 1
  /\ IF AlignedKeepHere
     THEN /\ rows' = Unshift(rows, MatchRow(words1[i], words2[j]))
          /\ i' = i - 1
          /\ j' = j - 1
          /\ pc' = pc
     ELSE IF j > 0 /\ i < 0
     THEN /\ UNCHANGED <<rows, i, j>>
          /\ pc' = "error"
     ELSE IF AlignedInsertHere
     THEN /\ rows' = Unshift(rows, AdditionRow(words2[j]))
          /\ i' = i
          /\ j' = j - 1
          /\ pc' = pc
     ELSE /\ rows' = Unshift(rows, RemovalRow(At(words1, i)))
          /\ i' = i - 1
          /\ j' = j
          /\ pc' = pc
  /\ UNCHANGED <<fn, text1, text2, words1, words2, dp, result, merged,
                 calls, first, other>>

\* The loop has ended: merge the rows and return.
AlignedReturn ==
  /\ UNCHANGED <<appVars, serviceVars>>
  /\ pc = "loop"
  /\ fn = "computeAlignedDiff"
  /\ ~(i > 0 \/ j > 0)
  /\ merged' = MergeRows(rows)
  /\ pc' = "done"
  /\ calls' = calls + 1
  /\ first' = IF calls = 0
              THEN [fn |-> fn, text1 |-> text1, text2 |-> text2,
                    value |-> merged']
              ELSE first
  /\ UNCHANGED <<fn, text1, text2, words1, words2, dp, i, j, result, rows,
                 iters, other>>

\* A further call, after one has returned: either function, on the first
\* call's two texts in either order.  The callee's locals are set when it is
\* entered; what the previous call left in them is dead.
CallAgain ==
  /\ UNCHANGED <<appVars, serviceVars>>
  /\ pc = "done"
  /\ calls < MaxCalls
  /\ \E f \in Fns, swap \in BOOLEAN :
       /\ fn' = f
       /\ text1' = IF swap THEN first.text2 ELSE first.text1
       /\ text2' = IF swap THEN first.text1 ELSE first.text2
  /\ other' = (other \/ fn' # first.fn \/ text1' # first.text1
                      \/ text2' # first.text2)
  /\ pc' = "call"
  /\ UNCHANGED <<words1, words2, dp, i, j, result, rows, merged, iters,
                 calls, first>>

Next ==
  \/ DiffEnter
  \/ DiffBacktrack
  \/ DiffReturn
  \/ AlignedEnter
  \/ AlignedBacktrack
  \/ AlignedReturn

\* One call of one engine function on every pair of texts.
Spec == Init /\ [][Next]_vars

\* Calls one after the other, on shorter texts.
InitRepeat ==
  /\ Init
  /\ Len(text1) <= MaxLenRepeat
  /\ Len(text2) <= MaxLenRepeat

NextRepeat ==
  \/ Next
  \/ CallAgain

SpecRepeat == InitRepeat /\ [][NextRepeat]_vars

\* ---------------------------------------------------------------- App
\* computeAlignedDiff as the App calls it, in one step: the backtrack loop
\* from (r, c) with the rows built so far.
RECURSIVE AlignedWalk(_, _, _, _, _, _)
AlignedWalk(w1, w2, t, r, c, acc) ==
  IF ~(r > 0 \/ c > 0) THEN acc
  ELSE IF r > 0 /\ c > 0 /\ w1[r] = w2[c]
  THEN AlignedWalk(w1, w2, t, r - 1, c - 1,
                   Unshift(acc, MatchRow(w1[r], w2[c])))
  ELSE IF c > 0 /\ (r = 0 \/ t[r][c-1] >= t[r-1][c])
  THEN AlignedWalk(w1, w2, t, r, c - 1, Unshift(acc, AdditionRow(w2[c])))
  ELSE AlignedWalk(w1, w2, t, r - 1, c, Unshift(acc, RemovalRow(At(w1, r))))

computeAlignedDiff(a, b) ==
  LET w1 == AlignedTokens(a)
      w2 == AlignedTokens(b)
  IN  MergeRows(AlignedWalk(w1, w2, LCSTable(w1, w2), Len(w1), Len(w2),
                            <<>>))

\* The documents the user can put into a panel.
AppTexts == {<<>>, <<" ">>, <<"a">>, <<"b">>, <<"a", " ", "b">>}

\* doc.trim() is not empty.
NonBlank(t) == \E k \in 1..Len(t) : ~IsWs(t[k])

\* getSmartExplanations: the rows it submits.  On a null side ?.type and
\* ?.value are undefined: not 'unchanged', and falsy.
MaxRelevant == 40
IsChange(row) == row.left.type # "unchanged" \/ row.right.type # "unchanged"
HasText(row) == NonBlank(row.left.value) \/ NonBlank(row.right.value)
Indexed(rs) ==
  [k \in 1..Len(rs) |->
     [index |-> k - 1, left |-> rs[k].left.value, right |-> rs[k].right.value,
      isChange |-> IsChange(rs[k]), hasText |-> HasText(rs[k])]]
\* Mutant: the test for text on a side is left out of the filter.
QualifiesAnyChange(c) == c.isChange
Qualifies(c) == c.isChange /\ c.hasText
RelevantChanges(rs) ==
  LET q == SelectSeq(Indexed(rs), Qualifies)
  IN  SubSeq(q, 1, IF Len(q) < MaxRelevant THEN Len(q) ELSE MaxRelevant)

\* The mapping built from a response that answers every submitted item; the
\* insight is abstracted to the number of the request it answers.
Explanations(req) ==
  LET rc == RelevantChanges(req.rows)
  IN  [x \in {rc[k].index : k \in 1..Len(rc)} |-> req.n]

InitApp ==
  /\ fn = "computeAlignedDiff"
  /\ text1 = <<>>
  /\ text2 = <<>>
  /\ pc = "idle"
  /\ words1 = <<>>
  /\ words2 = <<>>
  /\ dp = ZeroTable(0, 0)
  /\ i = 0
  /\ j = 0
  /\ result = <<>>
  /\ rows = <<>>
  /\ merged = <<>>
  /\ iters = 0
  /\ calls = 0
  /\ first = NoCall
  /\ other = FALSE
  /\ AppAtMount
  /\ variant \in {"gated", "plain"}
  /\ isApiKeyMissing \in BOOLEAN
  /\ variant = "plain" => isApiKeyMissing = FALSE
  /\ ServiceIdle

\* onChange of a panel's textarea, a file upload, a capture.
SetDoc ==
  /\ \E t \in AppTexts :
       \/ doc1' = t /\ doc2' = doc2
       \/ doc1' = doc1 /\ doc2' = t
  /\ UNCHANGED <<variant, alignedRows, smartExplanations, error,
                 isApiKeyMissing, pending, clicks, shown>>
  /\ UNCHANGED <<engineVars, serviceVars>>

\* handleReset (in the gated App after window.confirm).
HandleReset ==
  /\ doc1' = <<>>
  /\ doc2' = <<>>
  /\ alignedRows' = <<>>
  /\ smartExplanations' = NoExplanations
  /\ error' = "none"
  /\ shown' = 0
  /\ UNCHANGED <<variant, isApiKeyMissing, pending, clicks>>
  /\ UNCHANGED <<engineVars, serviceVars>>

\* handleCompare up to its await: the early returns, or the rows stored and
\* getSmartExplanations called with them.
HandleCompare ==
  /\ clicks < MaxCompares
  /\ clicks' = clicks + 1
  /\ IF variant = "gated" /\ isApiKeyMissing
     THEN /\ error' = "ai-disabled"
          /\ UNCHANGED <<alignedRows, pending, shown>>
     ELSE IF ~NonBlank(doc1) \/ ~NonBlank(doc2)
     THEN /\ error' = "need-text"
          /\ UNCHANGED <<alignedRows, pending, shown>>
     ELSE /\ error' = "none"
          /\ alignedRows' = computeAlignedDiff(doc1, doc2)
          /\ pending' = pending \cup {[n |-> clicks', rows |-> alignedRows']}
          /\ shown' = clicks'
  /\ UNCHANGED <<variant, doc1, doc2, smartExplanations, isApiKeyMissing>>
  /\ UNCHANGED <<engineVars, serviceVars>>

\* handleCompare after its await, getSmartExplanations having returned the
\* mapping parsed from the service's response.
ExplanationsAnswered ==
  /\ \E req \in pending :
       /\ RelevantChanges(req.rows) # <<>>
       /\ smartExplanations' = Explanations(req)
       /\ pending' = pending \ {req}
  /\ UNCHANGED <<variant, doc1, doc2, alignedRows, error, isApiKeyMissing,
                 clicks, shown>>
  /\ UNCHANGED <<engineVars, serviceVars>>

\* handleCompare after its await, getSmartExplanations having returned {}:
\* nothing to submit, the request rejected, no text, or text that is not JSON.
ExplanationsEmpty ==
  /\ \E req \in pending :
       /\ smartExplanations' = NoExplanations
       /\ pending' = pending \ {req}
  /\ UNCHANGED <<variant, doc1, doc2, alignedRows, error, isApiKeyMissing,
                 clicks, shown>>
  /\ UNCHANGED <<engineVars, serviceVars>>

\* handleCompare's catch: getSmartExplanations rejected (getAI() threw before
\* the try block).
ExplanationsRejected ==
  /\ \E req \in pending : pending' = pending \ {req}
  /\ error' = IF variant = "gated" THEN "insights-failed" ELSE error
  /\ UNCHANGED <<variant, doc1, doc2, alignedRows, smartExplanations,
                 isApiKeyMissing, clicks, shown>>
  /\ UNCHANGED <<engineVars, serviceVars>>

NextApp ==
  \/ SetDoc
  \/ HandleReset
  \/ HandleCompare
  \/ ExplanationsAnswered
  \/ ExplanationsEmpty
  \/ ExplanationsRejected

SpecApp == InitApp /\ [][NextApp]_vars

\* ------------------------------------------------- getSmartExplanations
\* Longest row sequence handed to getSmartExplanations.
MaxRows == 75

\* Row sequences as computeAlignedDiff returns them for long documents: a
\* block of rows repeated.  Changed words, changed whitespace runs, and kept
\* text between them.
KeptText == MatchRow(<<"a", " ">>, <<"a", " ">>)
DelWord == RemovalRow(<<"b">>)
InsWord == AdditionRow(<<"a", "b">>)
DelWs == RemovalRow(<<" ", " ">>)
InsWs == AdditionRow(<<" ">>)
Blocks ==
  {<<KeptText, DelWord, InsWord>>,
   <<DelWord, InsWord, KeptText>>,
   <<KeptText, DelWs, InsWs>>,
   <<KeptText, DelWord>>,
   <<KeptText, InsWord>>,
   <<KeptText, DelWord, InsWord, KeptText, DelWs, InsWord, KeptText,
     DelWord, InsWord>>}
Repeated(block, len) ==
  [k \in 1..len |-> block[((k - 1) % Len(block)) + 1]]
RowSeqs == {Repeated(b, l) : b \in Blocks, l \in 1..MaxRows}

\* What the service's JSON array answers: every submitted item, the first
\* one only, or no item.
Answers == {"all", "first", "empty-array"}
Answered(items, a) ==
  IF a = "all" THEN {items[k].index : k \in 1..Len(items)}
  ELSE IF a = "first" THEN {items[1].index}
  ELSE {}
\* parsed.forEach(item => { result[item.id] = item.insight })
ResultOf(ids) == [x \in ids |-> "insight"]

InitService ==
  /\ fn = "computeAlignedDiff"
  /\ text1 = <<>>
  /\ text2 = <<>>
  /\ pc = "idle"
  /\ words1 = <<>>
  /\ words2 = <<>>
  /\ dp = ZeroTable(0, 0)
  /\ i = 0
  /\ j = 0
  /\ result = <<>>
  /\ rows = <<>>
  /\ merged = <<>>
  /\ iters = 0
  /\ calls = 0
  /\ first = NoCall
  /\ other = FALSE
  /\ AppAtMount
  /\ variant = "plain"
  /\ isApiKeyMissing = FALSE
  /\ svcRows \in RowSeqs
  /\ svcPc = "called"
  /\ submitted = <<>>
  /\ returned = NoExplanations
  /\ outcome = "none"
  /\ serviceCalls = 0

\* const ai = getAI() throws (no API key in the browser): the async function
\* has not entered its try block, so its promise rejects.
GetAIThrows ==
  /\ svcPc = "called"
  /\ svcPc' = "rejected"
  /\ outcome' = "no-client"
  /\ UNCHANGED <<svcRows, submitted, returned, serviceCalls>>
  /\ UNCHANGED <<engineVars, appVars>>

\* getAI() returned: relevantChanges is built; with none the function returns
\* {}, otherwise it awaits ai.models.generateContent with the prompt.
BuildRequest ==
  /\ svcPc = "called"
  /\ submitted' = RelevantChanges(svcRows)
  /\ IF Len(submitted') = 0
     THEN /\ svcPc' = "resolved"
          /\ returned' = NoExplanations
          /\ outcome' = "nothing-to-send"
          /\ serviceCalls' = serviceCalls
     ELSE /\ svcPc' = "requesting"
          /\ serviceCalls' = serviceCalls + 1
          /\ UNCHANGED <<returned, outcome>>
  /\ UNCHANGED svcRows
  /\ UNCHANGED <<engineVars, appVars>>

\* The response has text that parses to an array of {id, insight}.
ServiceAnswers ==
  /\ svcPc = "requesting"
  /\ \E a \in Answers :
       /\ returned' = ResultOf(Answered(submitted, a))
       /\ outcome' = a
  /\ svcPc' = "resolved"
  /\ UNCHANGED <<svcRows, submitted, serviceCalls>>
  /\ UNCHANGED <<engineVars, appVars>>

\* The ways the try block ends with {}: generateContent rejects (catch), the
\* response has no text (if (!text) return {}), JSON.parse throws (catch).
ServiceFails ==
  /\ svcPc = "requesting"
  /\ outcome' \in {"request-rejected", "no-text", "bad-json"}
  /\ returned' = NoExplanations
  /\ svcPc' = "resolved"
  /\ UNCHANGED <<svcRows, submitted, serviceCalls>>
  /\ UNCHANGED <<engineVars, appVars>>

NextService ==
  \/ GetAIThrows
  \/ BuildRequest
  \/ ServiceAnswers
  \/ ServiceFails

\* One call of getSmartExplanations on every row sequence.
SpecService == InitService /\ [][NextService]_vars

\* ------------------------------------------------------------- claims
DiffDone == pc = "done" /\ fn = "computeDiff"
AlignedDone == pc = "done" /\ fn = "computeAlignedDiff"

RECURSIVE Flatten(_)
Flatten(ss) == IF ss = <<>> THEN <<>> ELSE Head(ss) \o Flatten(Tail(ss))

Values(recs) == [k \in 1..Len(recs) |-> recs[k].value]
OfKinds(recs, kinds) == SelectSeq(recs, LAMBDA r : r.type \in kinds)
TextOfKinds(recs, kinds) == Flatten(Values(OfKinds(recs, kinds)))
HasKind(recs, kind) == \E k \in 1..Len(recs) : recs[k].type = kind

Lefts(rs) == SelectSeq([k \in 1..Len(rs) |-> rs[k].left], LAMBDA c : c # Null)
Rights(rs) == SelectSeq([k \in 1..Len(rs) |-> rs[k].right], LAMBDA c : c # Null)

\* C1: when computeDiff(A, B) has returned, the texts of its unchanged and
\* removed records, concatenated in output order, are exactly A.
C1_ReconstructA ==
  DiffDone => TextOfKinds(merged, {"unchanged", "removed"}) = text1

\* A call that returned all three kinds of record, from a text A that starts
\* with whitespace.
C1_Witness ==
  /\ DiffDone
  /\ HasKind(merged, "unchanged") /\ HasKind(merged, "removed")
  /\ HasKind(merged, "added")
  /\ Len(text1) = 3 /\ IsWs(text1[1])

\* C2: when computeDiff(A, B) has returned, the texts of its unchanged and
\* added records, concatenated in output order, are exactly B.
C2_ReconstructB ==
  DiffDone => TextOfKinds(merged, {"unchanged", "added"}) = text2

\* A call that returned all three kinds of record, for a text B that ends
\* with whitespace.
C2_Witness ==
  /\ DiffDone
  /\ HasKind(merged, "unchanged") /\ HasKind(merged, "removed")
  /\ HasKind(merged, "added")
  /\ Len(text2) = 3 /\ IsWs(text2[3])

\* C3: when computeAlignedDiff(A, B) has returned, the present left values in
\* row order concatenate to A and the present right values to B, also when
\* A or B starts or ends with whitespace.
C3_RowsReconstruct ==
  AlignedDone => /\ Flatten(Values(Lefts(merged))) = text1
                 /\ Flatten(Values(Rights(merged))) = text2

\* A call on texts with leading and trailing whitespace (empty tokens were
\* filtered out) that returned several rows.
C3_Witness ==
  /\ AlignedDone
  /\ Len(text1) = 3 /\ IsWs(text1[1])
  /\ Len(text2) = 3 /\ IsWs(text2[3])
  /\ Len(Split(text1)) > Len(words1)
  /\ Len(merged) >= 3

Category(row) ==
  IF IsMatch(row) THEN "match"
  ELSE IF IsAddition(row) THEN "insertion"
  ELSE IF IsRemoval(row) THEN "deletion"
  ELSE "other"

\* C4: no two adjacent records returned by computeDiff have the same kind and
\* no two adjacent rows returned by computeAlignedDiff have the same category.
C4_MergeMaximal ==
  /\ DiffDone =>
       \A k \in 1..(Len(merged) - 1) : merged[k].type # merged[k+1].type
  /\ AlignedDone =>
       \A k \in 1..(Len(merged) - 1) :
         Category(merged[k]) # Category(merged[k+1])

\* A call whose merge pass joined tokens and still returned several entries.
C4_Witness ==
  /\ pc = "done"
  /\ Len(merged) >= 2
  /\ \/ fn = "computeDiff" /\ Len(result) > Len(merged) + 1
     \/ fn = "computeAlignedDiff" /\ Len(rows) > Len(merged) + 1

\* A row that is exactly one of the three legal shapes.
LegalRow(row) ==
  \/ /\ row.left # Null /\ row.left.type = "unchanged"
     /\ row.right # Null /\ row.right.type = "unchanged"
  \/ row.left = Null /\ row.right # Null /\ row.right.type = "added"
  \/ row.left # Null /\ row.left.type = "removed" /\ row.right = Null

\* C5: every row computeAlignedDiff builds and every row it returns is a
\* match (both sides unchanged), an insertion (left null, right added) or a
\* deletion (left removed, right null); no row has both sides null.
C5_RowShapes ==
  fn = "computeAlignedDiff" =>
    /\ \A k \in 1..Len(rows) : LegalRow(rows[k])
    /\ pc = "done" => \A k \in 1..Len(merged) : LegalRow(merged[k])

\* A call that returned a match, an insertion and a deletion.
C5_Witness ==
  /\ AlignedDone
  /\ \E k \in 1..Len(merged) : Category(merged[k]) = "match"
  /\ \E k \in 1..Len(merged) : Category(merged[k]) = "insertion"
  /\ \E k \in 1..Len(merged) : Category(merged[k]) = "deletion"

\* The per-token classification of the call: the tokens classified unchanged.
KeptTokens ==
  IF fn = "computeDiff"
  THEN Values(OfKinds(result, {"unchanged"}))
  ELSE Values(Lefts(SelectSeq(rows, IsMatch)))

RECURSIVE IsSubseq(_, _)
IsSubseq(s, t) ==
  IF s = <<>> THEN TRUE
  ELSE IF t = <<>> THEN FALSE
  ELSE IF Head(s) = Head(t) THEN IsSubseq(Tail(s), Tail(t))
  ELSE IsSubseq(s, Tail(t))

RECURSIVE PickFrom(_, _, _)
PickFrom(a, S, k) ==
  IF k > Len(a) THEN <<>>
  ELSE (IF k \in S THEN <<a[k]>> ELSE <<>>) \o PickFrom(a, S, k + 1)

\* The length of a longest common subsequence, by enumeration of the
\* subsequences of a: independent of the table.
CommonLens(a, b) ==
  {Cardinality(S) : S \in {T \in SUBSET (1..Len(a)) :
                             IsSubseq(PickFrom(a, T, 1), b)}}
RefLCS(a, b) ==
  CHOOSE x \in CommonLens(a, b) : \A y \in CommonLens(a, b) : y <= x

\* C6: when either function has returned, the tokens it classified unchanged
\* are a common subsequence of the two token arrays and their number is
\* dp[n][m], which is the length of a longest common subsequence.
C6_StrictLCS ==
  pc = "done" =>
    /\ Len(KeptTokens) = dp[Len(words1)][Len(words2)]
    /\ Len(KeptTokens) = RefLCS(words1, words2)
    /\ IsSubseq(KeptTokens, words1)
    /\ IsSubseq(KeptTokens, words2)

\* A call on different texts that kept two tokens or more and changed some.
C6_Witness ==
  /\ pc = "done"
  /\ Len(KeptTokens) >= 2
  /\ Len(KeptTokens) < Len(words1)
  /\ Len(KeptTokens) < Len(words2)

SameAsFirst == fn = first.fn /\ text1 = first.text1 /\ text2 = first.text2

\* C7: a call with the function and arguments of the first call returns what
\* the first call returned, whatever calls were made in between.
C7_Deterministic ==
  (pc = "done" /\ SameAsFirst) => merged = first.value

\* The third call repeats the first, a different call was made in between,
\* and the value is not empty.
C7_Witness ==
  /\ pc = "done"
  /\ calls = 3
  /\ other
  /\ SameAsFirst
  /\ Len(merged) >= 2

\* C8: no call throws or spins; in the loop i and j stay >= 0, every
\* iteration decreases i + j (by 1 or 2), and at most n + m iterations are
\* made before the loop ends at i = j = 0.
C8_Total ==
  /\ [](pc \notin {"error", "diverge"})
  /\ [](pc = "loop" =>
          /\ i >= 0 /\ j >= 0
          /\ iters + i + j <= Len(words1) + Len(words2))
  /\ [](pc = "done" => i = 0 /\ j = 0)
  /\ [][(pc = "loop" /\ iters' = iters + 1) =>
          /\ i' + j' < i + j
          /\ i' + j' >= i + j - 2
          /\ i' >= 0 /\ j' >= 0]_vars

\* A call that returned after n + m iterations, none of them a match.
C8_Witness ==
  /\ pc = "done"
  /\ iters = Len(words1) + Len(words2)
  /\ Len(words1) >= 3
  /\ Len(words2) >= 1

\* C9: computeDiff(S, S) for a non-empty S returns the single record
\* {unchanged, S}.
C9_DiffIdentity ==
  (DiffDone /\ text1 = text2 /\ text1 # <<>>) =>
    merged = <<Change("unchanged", text1)>>

\* computeDiff(S, S) has returned for an S that starts with whitespace and
\* has five tokens, two of them empty.
C9_Witness ==
  /\ DiffDone
  /\ text1 = text2
  /\ Len(text1) = 3 /\ IsWs(text1[1])
  /\ Len(words1) = 5

\* C10: computeAlignedDiff(S, S) for a non-empty S returns the single row
\* {left: {unchanged, S}, right: {unchanged, S}}.
C10_AlignedIdentity ==
  (AlignedDone /\ text1 = text2 /\ text1 # <<>>) =>
    merged = <<Row(Change("unchanged", text1), Change("unchanged", text1))>>

\* computeAlignedDiff(S, S) has returned for an S of three tokens that
\* repeats a token.
C10_Witness ==
  /\ AlignedDone
  /\ text1 = text2
  /\ Len(words1) = 3
  /\ words1[1] = words1[3]

\* C11 (as claimed): computeDiff("", "") returns the empty sequence.
C11_EmptyEmpty ==
  (DiffDone /\ text1 = <<>> /\ text2 = <<>>) => merged = <<>>

\* C12 (as claimed): computeDiff("", B) for a non-empty B returns the single
\* record {added, B}.
C12_OnlyInserted ==
  (DiffDone /\ text1 = <<>> /\ text2 # <<>>) =>
    merged = <<Change("added", text2)>>

\* C13 (as claimed): computeDiff(A, "") for a non-empty A returns the single
\* record {removed, A}.
C13_OnlyDeleted ==
  (DiffDone /\ text1 # <<>> /\ text2 = <<>>) =>
    merged = <<Change("removed", text1)>>

InScenario == text1 = ScenarioA /\ text2 = ScenarioB

\* C14: computeDiff("A B", "A C") returns {unchanged, "A "}, {removed, "B"},
\* {added, "C"}, in this order.
C14_ScenarioFlat ==
  (DiffDone /\ InScenario) =>
    merged = <<Change("unchanged", <<"A", " ">>),
               Change("removed", <<"B">>),
               Change("added", <<"C">>)>>

\* computeDiff("A B", "A C") has returned; at (3, 3) the two cells tied.
C14_Witness ==
  /\ DiffDone
  /\ InScenario
  /\ dp[3][2] = dp[2][3]
  /\ Len(merged) = 3

\* C15: computeAlignedDiff("A B", "A C") returns a match row "A " / "A ",
\* then a deletion row "B", then an insertion row "C".
C15_ScenarioRows ==
  (AlignedDone /\ InScenario) =>
    merged = <<MatchRow(<<"A", " ">>, <<"A", " ">>),
               Row(Change("removed", <<"B">>), Null),
               Row(Null, Change("added", <<"C">>))>>

\* computeAlignedDiff("A B", "A C") has returned; at (3, 3) the cells tied.
C15_Witness ==
  /\ AlignedDone
  /\ InScenario
  /\ dp[3][2] = dp[2][3]
  /\ Len(merged) = 3

\* A token made only of whitespace or only of non-whitespace characters.
Homogeneous(w) ==
  \/ \A k \in 1..Len(w) : IsWs(w[k])
  \/ \A k \in 1..Len(w) : ~IsWs(w[k])

\* C16: once a function has tokenized its arguments, the tokens of each text
\* concatenate back to the text and every token is made only of whitespace
\* or only of non-whitespace characters.
C16_Tokens ==
  pc \in {"loop", "done"} =>
    /\ Flatten(words1) = text1
    /\ Flatten(words2) = text2
    /\ \A k \in 1..Len(words1) : Homogeneous(words1[k])
    /\ \A k \in 1..Len(words2) : Homogeneous(words2[k])

\* computeAlignedDiff tokenized a text that starts with whitespace (an empty
\* token was dropped) into three tokens.
C16_Witness ==
  /\ fn = "computeAlignedDiff"
  /\ pc = "loop"
  /\ Len(text1) = 3 /\ IsWs(text1[1])
  /\ Len(words1) = 3
  /\ Len(Split(text1)) > Len(words1)

Prefix(s, k) == SubSeq(s, 1, k)

\* C18: the table a function has built holds, in every cell (r, c), the
\* length of a longest common subsequence of the first r tokens of words1
\* and the first c tokens of words2; row 0 and column 0 hold 0.
C18_TableIsLCS ==
  (pc = "loop" /\ iters = 0) =>
    /\ DOMAIN dp = 0..Len(words1)
    /\ \A r \in 0..Len(words1) :
         /\ DOMAIN dp[r] = 0..Len(words2)
         /\ dp[r][0] = 0
         /\ \A c \in 0..Len(words2) :
              /\ dp[0][c] = 0
              /\ dp[r][c] = RefLCS(Prefix(words1, r), Prefix(words2, c))

\* A table for different token arrays of three or more tokens whose last
\* cell is 2 and is reached without a match on the last tokens.
C18_Witness ==
  /\ pc = "loop" /\ iters = 0
  /\ Len(words1) >= 3 /\ Len(words2) >= 3
  /\ words1[Len(words1)] # words2[Len(words2)]
  /\ dp[Len(words1)][Len(words2)] = 2

\* The tie-break policy as the spec states it, at (i, j).
PolicyInsert == j > 0 /\ (i = 0 \/ dp[i][j-1] >= dp[i-1][j])
\* The entry an iteration has put at the front: the record, or the row as
\* the record of its populated side.
FrontRecord(f, res, rs) ==
  IF f = "computeDiff" THEN Head(res)
  ELSE IF Head(rs).left = Null THEN Head(rs).right ELSE Head(rs).left

\* C19: an iteration of either backtrack loop at which the tokens at (i, j)
\* do not match classifies words2[j] as added, and decrements j only, exactly
\* when j > 0 and (i = 0 or dp[i][j-1] >= dp[i-1][j]); otherwise it
\* classifies words1[i] as removed and decrements i only.  Both functions
\* follow this one rule, so they choose alike on the same arrays.
C19_TieBreak ==
  [][(/\ pc = "loop" /\ iters' = iters + 1
      /\ ~(i > 0 /\ j > 0 /\ words1[i] = words2[j])) =>
       IF PolicyInsert
       THEN /\ i' = i /\ j' = j - 1
            /\ FrontRecord(fn, result', rows') = Change("added", words2[j])
            /\ fn = "computeAlignedDiff" => Head(rows').left = Null
       ELSE /\ i' = i - 1 /\ j' = j
            /\ i > 0
            /\ FrontRecord(fn, result', rows') = Change("removed", words1[i])
            /\ fn = "computeAlignedDiff" => Head(rows').right = Null]_vars

\* A walk that met a tie away from the borders, took the insertion there,
\* and later a deletion.
C19_Witness ==
  /\ pc = "loop"
  /\ i > 0 /\ j > 0
  /\ i < Len(words1)
  /\ j + 1 <= Len(words2) /\ dp[i + 1][j] = dp[i][j + 1]
  /\ IF fn = "computeDiff"
     THEN Len(result) >= 2 /\ result[1].type = "removed"
          /\ result[2].type = "added"
     ELSE Len(rows) >= 2 /\ IsRemoval(rows[1]) /\ IsAddition(rows[2])

\* A row as a record: a match or a deletion as its left side, an insertion
\* as its right side.
RowRecord(row) == IF row.left = Null THEN row.right ELSE row.left
RowRecords(rs) == [k \in 1..Len(rs) |-> RowRecord(rs[k])]

\* C20 (as claimed): when computeAlignedDiff(A, B) returns after
\* computeDiff(A, B) has, its rows taken as records are the records
\* computeDiff returned.
C20_SameView ==
  (/\ AlignedDone /\ first.fn = "computeDiff"
   /\ text1 = first.text1 /\ text2 = first.text2) =>
    RowRecords(merged) = first.value

\* The walk in one step returns what the walk in iterations returns.
WalkAgrees == AlignedDone => merged = computeAlignedDiff(text1, text2)

\* C17 (as claimed): every click on Compare with two non-blank documents
\* stores alignedRows = computeAlignedDiff(doc1, doc2), whether or not the
\* API key is missing, and the end of an explanation request, failed or not,
\* leaves alignedRows as they are.
C17_Graceful ==
  [][/\ (clicks' = clicks + 1 /\ NonBlank(doc1) /\ NonBlank(doc2)) =>
          alignedRows' = computeAlignedDiff(doc1, doc2)
     /\ (pending' # pending /\ clicks' = clicks) =>
          alignedRows' = alignedRows]_vars

\* A non-empty run of whitespace or of non-whitespace characters.
IsRun(w) == Len(w) > 0 /\ Homogeneous(w)
\* Runs that are maximal: neighbours are of different kinds.
MaximalRuns(words) ==
  /\ \A k \in 1..Len(words) : IsRun(words[k])
  /\ \A k \in 1..(Len(words) - 1) :
       IsWs(words[k][1]) # IsWs(words[k + 1][1])

\* C21 (as claimed): in computeDiff as in computeAlignedDiff, for every text,
\* the tokens that enter the alignment are non-empty maximal runs of
\* whitespace or of non-whitespace characters, and no record or row side
\* built from one token has an empty value.
C21_NoEmptyToken ==
  pc \in {"loop", "done"} =>
    /\ MaximalRuns(words1)
    /\ MaximalRuns(words2)
    /\ \A k \in 1..Len(result) : result[k].value # <<>>
    /\ \A k \in 1..Len(rows) :
         /\ rows[k].left # Null => rows[k].left.value # <<>>
         /\ rows[k].right # Null => rows[k].right.value # <<>>

\* The entries the backtrack loop of the call has built so far.
Entries(f, res, rs) == IF f = "computeDiff" THEN res ELSE rs

\* C22 (as claimed): the walk starts at (n, m) and ends at (0, 0), and every
\* iteration adds one classified token and decrements exactly one of i, j.
C22_OneIndex ==
  /\ []((pc = "loop" /\ iters = 0) => (i = Len(words1) /\ j = Len(words2)))
  /\ [](pc = "done" => (i = 0 /\ j = 0))
  /\ [][(pc = "loop" /\ iters' = iters + 1) =>
          /\ Len(Entries(fn, result', rows')) =
               Len(Entries(fn, result, rows)) + 1
          /\ \/ i' = i - 1 /\ j' = j
             \/ i' = i /\ j' = j - 1]_vars

\* C22 (amended): the walk starts at (n, m) and ends at (0, 0); every
\* iteration adds exactly one entry; it decrements both i and j when the
\* tokens at (i, j) are equal (the entry is then unchanged), and exactly one
\* of i, j otherwise (the entry is then added or removed).
C22_Walk ==
  /\ []((pc = "loop" /\ iters = 0) => (i = Len(words1) /\ j = Len(words2)))
  /\ [](pc = "done" => (i = 0 /\ j = 0))
  /\ [][(pc = "loop" /\ iters' = iters + 1) =>
          /\ Len(Entries(fn, result', rows')) =
               Len(Entries(fn, result, rows)) + 1
          /\ IF i > 0 /\ j > 0 /\ words1[i] = words2[j]
             THEN /\ i' = i - 1 /\ j' = j - 1
                  /\ FrontRecord(fn, result', rows').type = "unchanged"
             ELSE /\ \/ i' = i - 1 /\ j' = j
                     \/ i' = i /\ j' = j - 1
                  /\ FrontRecord(fn, result', rows').type
                       \in {"added", "removed"}]_vars

\* A walk that has ended at (0, 0) after steps of all three kinds, one of
\* which decremented both indices.
C22_Witness ==
  /\ pc = "done"
  /\ i = 0 /\ j = 0
  /\ Len(words1) >= 3 /\ Len(words2) >= 2
  /\ iters < Len(words1) + Len(words2)
  /\ LET es == IF fn = "computeDiff" THEN result ELSE RowRecords(rows)
     IN  /\ HasKind(es, "unchanged")
         /\ HasKind(es, "added")
         /\ HasKind(es, "removed")

\* The maximal runs of same-category rows of rs: where they start and end.
RunStarts(rs) ==
  {k \in 1..Len(rs) : k = 1 \/ Category(rs[k]) # Category(rs[k - 1])}
RunEnd(rs, s) ==
  CHOOSE e \in s..Len(rs) :
    /\ \A k \in s..e : Category(rs[k]) = Category(rs[s])
    /\ e = Len(rs) \/ Category(rs[e + 1]) # Category(rs[s])
NthStart(rs, n) ==
  CHOOSE s \in RunStarts(rs) : Cardinality({t \in RunStarts(rs) : t <= s}) = n
LeftText(rs, s, e) ==
  Flatten([k \in 1..(e - s + 1) |-> rs[s + k - 1].left.value])
RightText(rs, s, e) ==
  Flatten([k \in 1..(e - s + 1) |-> rs[s + k - 1].right.value])
\* The one row a run is to become.
RunRow(rs, s, e) ==
  IF Category(rs[s]) = "match"
  THEN Row(Change("unchanged", LeftText(rs, s, e)),
           Change("unchanged", RightText(rs, s, e)))
  ELSE IF Category(rs[s]) = "insertion"
  THEN Row(Null, Change("added", RightText(rs, s, e)))
  ELSE Row(Change("removed", LeftText(rs, s, e)), Null)

\* C23: what computeAlignedDiff returns has exactly one row per maximal run
\* of same-category per-token rows, in order: a run of matches with its left
\* values and its right values each concatenated, a run of insertions with
\* its right values concatenated and no left side, a run of deletions with
\* its left values concatenated and no right side; a deletion row next to
\* an insertion row stays apart.
C23_RowMerge ==
  AlignedDone =>
    /\ Len(merged) = Cardinality(RunStarts(rows))
    /\ \A n \in 1..Len(merged) :
         merged[n] = RunRow(rows, NthStart(rows, n),
                            RunEnd(rows, NthStart(rows, n)))

\* A call whose per-token rows had a deletion right before an insertion and
\* a run of two matches or more.
C23_Witness ==
  /\ AlignedDone
  /\ \E k \in 1..(Len(rows) - 1) : IsRemoval(rows[k]) /\ IsAddition(rows[k + 1])
  /\ \E k \in 1..(Len(rows) - 1) : IsMatch(rows[k]) /\ IsMatch(rows[k + 1])
  /\ Len(merged) = 3

\* C24: the merge pass of computeDiff applied to what computeDiff returned,
\* and the row merge pass of computeAlignedDiff applied to what
\* computeAlignedDiff returned, give that same sequence again.
C24_MergeIdempotent ==
  /\ DiffDone => MergeChanges(merged) = merged
  /\ AlignedDone => MergeRows(merged) = merged

\* A call whose merge pass joined tokens into its first entry and returned
\* two entries or more: the second pass meets a concatenated entry.
C24_Witness ==
  /\ pc = "done"
  /\ Len(merged) >= 2
  /\ IF fn = "computeAlignedDiff"
     THEN /\ IsMatch(merged[1])
          /\ Len(merged[1].left.value) >= 2
          /\ Len(rows) >= Len(merged) + 1
     ELSE /\ Len(merged[1].value) >= 2
          /\ Len(result) >= Len(merged) + 1

\* In a sequence of records, no added record comes before a removed record
\* of the same changed region (no unchanged record between the two).
DeletionsFirst(recs) ==
  \A k \in 1..Len(recs) : \A l \in (k + 1)..Len(recs) :
    (recs[k].type = "added" /\ recs[l].type = "removed") =>
      \E u \in (k + 1)..(l - 1) : recs[u].type = "unchanged"

\* C25: in what computeDiff returns no added record is immediately followed
\* by a removed record, in what computeAlignedDiff returns no insertion row
\* is immediately followed by a deletion row, and in each changed region,
\* token by token and after merging, all deletions come before all
\* insertions.
C25_DeletionsFirst ==
  /\ DiffDone =>
       /\ \A k \in 1..(Len(merged) - 1) :
            ~(merged[k].type = "added" /\ merged[k + 1].type = "removed")
       /\ DeletionsFirst(result)
       /\ DeletionsFirst(merged)
  /\ AlignedDone =>
       /\ \A k \in 1..(Len(merged) - 1) :
            ~(IsAddition(merged[k]) /\ IsRemoval(merged[k + 1]))
       /\ DeletionsFirst(RowRecords(rows))
       /\ DeletionsFirst(RowRecords(merged))

\* A call that returned two changed regions, each a deletion followed by an
\* insertion, with kept text between them.
C25_Witness ==
  /\ pc = "done"
  /\ LET es == IF fn = "computeDiff" THEN merged ELSE RowRecords(merged)
     IN  /\ Len(es) = 5
         /\ es[1].type = "removed" /\ es[2].type = "added"
         /\ es[3].type = "unchanged"
         /\ es[4].type = "removed" /\ es[5].type = "added"

\* A non-empty text that neither begins nor ends with whitespace: its split
\* has no empty token.
Clean(t) == t # <<>> /\ ~IsWs(t[1]) /\ ~IsWs(t[Len(t)])

\* C26: for non-empty texts A and B that neither begin nor end with
\* whitespace, the rows of computeAlignedDiff(A, B) taken as records are
\* exactly what computeDiff(A, B) returns; and an iteration of either loop
\* that takes neither the keep nor the insert branch satisfies the guard of
\* computeDiff's third branch, so the unguarded else does the same.
C26_CleanSameView ==
  /\ (DiffDone /\ Clean(text1) /\ Clean(text2)) =>
       /\ DiffTokens(text1) = AlignedTokens(text1)
       /\ DiffTokens(text2) = AlignedTokens(text2)
       /\ merged = RowRecords(computeAlignedDiff(text1, text2))
  /\ (pc = "loop" /\ (i > 0 \/ j > 0) /\ Clean(text1) /\ Clean(text2)) =>
       /\ (fn = "computeDiff" /\ ~DiffKeepHere /\ ~DiffInsertHere) =>
            DiffDeleteHere
       /\ (fn = "computeAlignedDiff" /\ ~AlignedKeepHere
           /\ ~AlignedInsertHere) => DiffDeleteHere

\* computeDiff has returned records of all three kinds for two texts of
\* three tokens each that neither begin nor end with whitespace.
C26_Witness ==
  /\ DiffDone
  /\ Clean(text1) /\ Clean(text2)
  /\ Len(words1) = 3 /\ Len(words2) = 3
  /\ text1 \notin {ScenarioA, ScenarioB}
  /\ HasKind(merged, "unchanged")
  /\ HasKind(merged, "removed")
  /\ HasKind(merged, "added")

\* C27 (as claimed): whenever smartExplanations is not empty it is the
\* response to the request made by the Compare that stored the alignedRows
\* on display; a response to an earlier Compare, or one that arrives after
\* Reset, is not stored.
C27_KeyedToRows ==
  smartExplanations # NoExplanations =>
    /\ shown > 0
    /\ smartExplanations = Explanations([n |-> shown, rows |-> alignedRows])

\* The rows of rs, by position, that are not match rows and have a character
\* that is not whitespace on a side.
ChangedWithText(rs) ==
  {k \in 1..Len(rs) :
     /\ ~IsMatch(rs[k])
     /\ \/ \E c \in 1..Len(rs[k].left.value) : rs[k].left.value[c] \notin Ws
        \/ \E c \in 1..Len(rs[k].right.value) : rs[k].right.value[c] \notin Ws}

C29_NeverRejects ==
  /\ svcPc # "rejected"
  /\ outcome \in {"no-client", "request-rejected", "no-text", "bad-json"} =>
       (svcPc = "resolved" /\ returned = NoExplanations)

\* C30: in every match row computeAlignedDiff returns, and in every match
\* row it built for one token, the left text equals the right text.
C30_MatchSidesEqual ==
  fn = "computeAlignedDiff" =>
    /\ \A k \in 1..Len(rows) :
         IsMatch(rows[k]) => rows[k].left.value = rows[k].right.value
    /\ pc = "done" =>
         \A k \in 1..Len(merged) :
           IsMatch(merged[k]) => merged[k].left.value = merged[k].right.value

\* computeAlignedDiff has returned, after a changed row, a match row that
\* the merge pass joined from two tokens.
C30_Witness ==
  /\ AlignedDone
  /\ Len(merged) = 2
  /\ ~IsMatch(merged[1])
  /\ IsMatch(merged[2])
  /\ Len(rows) = 3
  /\ Len(merged[2].right.value) = 2
====
